---- MODULE Spec2Model ----
(***************************************************************************)
(* State-machine model of fantasy_draft_dashboard.tsx: the roster, the     *)
(* pick log, the "my roster" list, the league settings, the weight knobs,  *)
(* the list filters and the CSV import, with the derived views (baseline   *)
(* ranking, ranked board, upcoming picks, pick-log display).               *)
(*                                                                         *)
(* Numbers.  JavaScript numbers are modelled by integers.  adp, age,       *)
(* offense and bye are whole numbers; injuryRisk and upside are kept in    *)
(* hundredths (0.95 is 95).  A value read from a CSV cell is in hundredths *)
(* until it is stored in a field.  Team counts and draft slots typed into  *)
(* the number inputs are whole numbers.                                    *)
(*                                                                         *)
(* Rendering.  React re-renders between two discrete events, so a handler  *)
(* always reads the state of the latest render; a handler and the render   *)
(* that follows it are one atomic action.  The only handler that spans two *)
(* steps is handleCSVFile, which awaits file.text().  The save effect runs  *)
(* after every render that returns, so it is part of the action too.       *)
(*                                                                         *)
(* Startup.  A session is "mounted" after its first render (the useState   *)
(* defaults), "loaded" once the two effects of that render have run, and   *)
(* "running" once the render of the loaded values has returned.            *)
(***************************************************************************)
EXTENDS Integers, Sequences, FiniteSets, TLC

VARIABLES
  teams, mySlot, rounds,            \* League Settings
  weights,                          \* the nine raw weight knobs
  showOnly, search, showTakenInList,\* list filters
  dataError,                        \* import error message or Null
  players,                          \* the roster
  picks, myRoster,                  \* the pick log and the "my roster" list
  pending,                          \* files whose file.text() has not resolved
  stored,                           \* the snapshot under LS_KEY in localStorage
  phase                             \* how far the startup of the session is

vars == <<teams, mySlot, rounds, weights, showOnly, search, showTakenInList,
          dataError, players, picks, myRoster, pending, stored, phase>>

(***************************************************************************)
(* Bounds of the model.                                                    *)
(***************************************************************************)
MaxPicks == 2      \* addPick is not offered once the log has this many events
MaxPending == 1    \* CSV files being read at the same time
ScanLimit == 100   \* iterations of the upcoming-picks scan that are followed
MaxOverall == 26   \* length of the pick log in the snake-order specification

(***************************************************************************)
(* Values.                                                                 *)
(***************************************************************************)
Null == "null"
Undef == 0 - 1000000
NoTeam == "undefined"
PosKeys == {"QB", "RB", "WR", "TE"}

Player(n, p, t, a, r, d, i, u, o, b) ==
  [name |-> n, pos |-> p, team |-> t, age |-> a, rookie |-> r, adp |-> d,
   injuryRisk |-> i, upside |-> u, offense |-> o, bye |-> b]

DEFAULT_PLAYERS == <<
  Player("Patrick Mahomes", "QB", "KC", 29, FALSE, 12, 10, 95, 1, 10),
  Player("Josh Allen", "QB", "BUF", 29, FALSE, 15, 12, 92, 1, 12),
  Player("C.J. Stroud", "QB", "HOU", 23, FALSE, 18, 8, 90, 1, 7),
  Player("Caleb Williams", "QB", "CHI", 22, TRUE, 65, 15, 85, 2, 11),
  Player("Christian McCaffrey", "RB", "SF", 28, FALSE, 1, 18, 96, 1, 9),
  Player("Breece Hall", "RB", "NYJ", 23, FALSE, 7, 20, 90, 2, 12),
  Player("Bijan Robinson", "RB", "ATL", 22, FALSE, 4, 14, 92, 2, 10),
  Player("Rookie RB A", "RB", "RFA", 21, TRUE, 80, 22, 78, 3, 7),
  Player("Justin Jefferson", "WR", "MIN", 25, FALSE, 2, 10, 98, 1, 6),
  Player("Ja'Marr Chase", "WR", "CIN", 25, FALSE, 3, 16, 96, 1, 12),
  Player("Puka Nacua", "WR", "LAR", 23, FALSE, 14, 12, 90, 2, 10),
  Player("Rookie WR B", "WR", "RFB", 22, TRUE, 75, 18, 82, 3, 8),
  Player("Sam LaPorta", "TE", "DET", 23, FALSE, 22, 10, 87, 1, 9),
  Player("Travis Kelce", "TE", "KC", 35, FALSE, 28, 22, 82, 1, 10),
  Player("Brock Bowers", "TE", "LV", 21, TRUE, 90, 16, 76, 3, 11) >>

DefaultWeights ==
  [qbW |-> 100, rbW |-> 100, wrW |-> 100, teW |-> 100, rookieBoost |-> 20,
   riskAverse |-> 50, upsideWeight |-> 50, adpAnchor |-> 60,
   offenseWeight |-> 50]

Min(a, b) == IF a < b THEN a ELSE b
Max(a, b) == IF a > b THEN a ELSE b

\* the names of a list of players or of pick events
NamesOf(s) == {s[i].name : i \in 1..Len(s)}

RECURSIVE SelectIdx(_, _, _)
\* the elements s[i], i >= from, with keep[i]
SelectIdx(s, keep, from) ==
  IF from > Len(s) THEN <<>>
  ELSE IF keep[from] THEN <<s[from]>> \o SelectIdx(s, keep, from + 1)
  ELSE SelectIdx(s, keep, from + 1)

\* Array.prototype.filter; keep[i] is the value of the predicate on s[i]
Filter(s, keep) == SelectIdx(s, keep, 1)

RECURSIVE InsertIdx(_, _, _)
\* index x goes before the first index y of the sorted list with key[x] < key[y]
InsertIdx(x, sorted, key) ==
  IF sorted = <<>> THEN <<x>>
  ELSE IF key[x] - key[Head(sorted)] < 0 THEN <<x>> \o sorted
  ELSE <<Head(sorted)>> \o InsertIdx(x, Tail(sorted), key)

RECURSIVE SortIdx(_, _)
SortIdx(n, key) ==
  IF n = 0 THEN <<>> ELSE InsertIdx(n, SortIdx(n - 1, key), key)

\* Array.prototype.sort((a,b) => key(a) - key(b)): a stable sort; key[i] is
\* the key of s[i]
ArraySort(s, key) ==
  LET perm == SortIdx(Len(s), key) IN [i \in 1..Len(s) |-> s[perm[i]]]

\* the keys of the comparator (a,b) => a.adp - b.adp
AdpKeys(s) == [i \in 1..Len(s) |-> s[i].adp]

(***************************************************************************)
(* Strings.  A string is a sequence of characters; a character is a string *)
(* of length one.                                                          *)
(***************************************************************************)
CharAt(s, i) == SubSeq(s, i, i)
UpperLetters == "ABCDEFGHIJKLMNOPQRSTUVWXYZ"
LowerLetters == "abcdefghijklmnopqrstuvwxyz"
Digits == "0123456789"
WhiteSpace == {" ", "\t", "\n", "\r"}

\* the position of character c in alphabet, 0 when absent
IndexIn(c, alphabet) ==
  LET at == {k \in 1..Len(alphabet) : CharAt(alphabet, k) = c}
  IN IF at = {} THEN 0 ELSE CHOOSE k \in at : TRUE

LowerChar(c) ==
  LET k == IndexIn(c, UpperLetters)
  IN IF k = 0 THEN c ELSE CharAt(LowerLetters, k)
UpperChar(c) ==
  LET k == IndexIn(c, LowerLetters)
  IN IF k = 0 THEN c ELSE CharAt(UpperLetters, k)

RECURSIVE LowerFrom(_, _)
LowerFrom(s, i) ==
  IF i > Len(s) THEN "" ELSE LowerChar(CharAt(s, i)) \o LowerFrom(s, i + 1)
ToLowerCase(s) == LowerFrom(s, 1)

RECURSIVE UpperFrom(_, _)
UpperFrom(s, i) ==
  IF i > Len(s) THEN "" ELSE UpperChar(CharAt(s, i)) \o UpperFrom(s, i + 1)
ToUpperCase(s) == UpperFrom(s, 1)

\* String.prototype.trim
Trim(s) ==
  LET solid == {i \in 1..Len(s) : CharAt(s, i) \notin WhiteSpace}
  IN IF solid = {} THEN ""
     ELSE SubSeq(s, CHOOSE i \in solid : \A j \in solid : i <= j,
                    CHOOSE i \in solid : \A j \in solid : i >= j)

\* String.prototype.split with a one-character separator: piece k lies
\* between the (k-1)-th and the k-th occurrence of the separator
Split(s, sep) ==
  LET at == {i \in 1..Len(s) : CharAt(s, i) = sep}
      Nth(k) == IF k = 0 THEN 0
                ELSE IF k > Cardinality(at) THEN Len(s) + 1
                ELSE CHOOSE i \in at : Cardinality({j \in at : j <= i}) = k
  IN [k \in 1..(Cardinality(at) + 1) |-> SubSeq(s, Nth(k - 1) + 1, Nth(k) - 1)]

RECURSIVE Concat(_, _)
\* the first n strings of a list, joined
Concat(pieces, n) ==
  IF n = 0 THEN "" ELSE Concat(pieces, n - 1) \o pieces[n]

\* s.replace(/c/g, "")
WithoutChar(s, c) == LET pieces == Split(s, c) IN Concat(pieces, Len(pieces))

\* String.prototype.includes
Includes(s, sub) ==
  \E i \in 1..(Len(s) - Len(sub) + 1) : SubSeq(s, i, i + Len(sub) - 1) = sub

RECURSIVE DigitsValue(_, _)
\* the number written by the first n characters of a string of digits
DigitsValue(s, n) ==
  IF n = 0 THEN 0
  ELSE 10 * DigitsValue(s, n - 1) + (IndexIn(CharAt(s, n), Digits) - 1)

AllDigits(s) == \A i \in 1..Len(s) : IndexIn(CharAt(s, i), Digits) > 0

NotANumber == [finite |-> FALSE, val |-> 0]

\* the value of the decimal literal int.frac, in hundredths
DecimalValue(int, frac, negative) ==
  IF AllDigits(int) /\ AllDigits(frac) /\ Len(int) + Len(frac) > 0
     /\ Len(frac) <= 2
  THEN [finite |-> TRUE,
        val |-> (IF negative THEN 0 - 1 ELSE 1) *
                (100 * DigitsValue(int, Len(int))
                 + (IF Len(frac) = 1 THEN 10 ELSE 1)
                   * DigitsValue(frac, Len(frac)))]
  ELSE NotANumber

\* the value of an unsigned literal split at its decimal points
UnsignedValue(parts, negative) ==
  IF Len(parts) > 2 THEN NotANumber
  ELSE DecimalValue(parts[1], IF Len(parts) = 2 THEN parts[2] ELSE "",
                    negative)

\* the value of a trimmed, non-empty literal
LiteralValue(s) ==
  IF CharAt(s, 1) \in {"-", "+"}
  THEN UnsignedValue(Split(SubSeq(s, 2, Len(s)), "."), CharAt(s, 1) = "-")
  ELSE UnsignedValue(Split(s, "."), FALSE)

TrimmedValue(s) ==
  IF s = "" THEN [finite |-> TRUE, val |-> 0] ELSE LiteralValue(s)

\* Number(v) for a cell: whether the result is finite, and its value in
\* hundredths.  Decimal literals with at most two decimals are read; the
\* cells of the model use no other numeric notation.
NumberOf(v) == TrimmedValue(Trim(v))

\* a hundredths value as a whole number
Whole(h) == IF h = Undef THEN Undef ELSE h \div 100

(***************************************************************************)
(* CSV import.                                                             *)
(***************************************************************************)
normalizeHeader(h) == ToLowerCase(Trim(h))

\* r.h for a parsed row: undefined when the column is absent
Field(r, h) == IF h \in DOMAIN r THEN r[h] ELSE NoTeam

parseBool(v) ==
  IF v = NoTeam THEN FALSE
  ELSE LET s == ToLowerCase(Trim(v))
       IN s = "1" \/ s = "true" \/ s = "yes" \/ s = "y"

\* Number.isFinite(n) ? n : undefined
FiniteOrUndef(n) == IF n.finite THEN n.val ELSE Undef

parseMaybeNum(v) ==
  IF v = NoTeam \/ v = "" THEN Undef ELSE FiniteOrUndef(NumberOf(v))

\* lines.filter(Boolean)
NonEmpty(lines) == Filter(lines, [i \in 1..Len(lines) |-> lines[i] # ""])

\* text.replace(/\r/g,"").split("\n").filter(Boolean)
LinesOf(text) == NonEmpty(Split(WithoutChar(text, "\r"), "\n"))

\* lines[0].split(",").map(normalizeHeader)
HeadersOf(cells) == [i \in 1..Len(cells) |-> normalizeHeader(cells[i])]

\* a repeated header keeps the cell of its last column
LastColumn(headers, h) ==
  CHOOSE i \in 1..Len(headers) :
    headers[i] = h /\ \A j \in (i + 1)..Len(headers) : headers[j] # h

\* headers.forEach((h,i)=>{ obj[h]=(cells[i]??"").trim(); })
RowOf(headers, cells) ==
  [h \in {headers[i] : i \in 1..Len(headers)} |->
     IF LastColumn(headers, h) <= Len(cells)
     THEN Trim(cells[LastColumn(headers, h)]) ELSE ""]

RowsOf(lines) ==
  IF lines = <<>> THEN <<>>
  ELSE [k \in 1..(Len(lines) - 1) |->
          RowOf(HeadersOf(Split(lines[1], ",")), Split(lines[k + 1], ","))]

simpleCSVParse(text) == RowsOf(LinesOf(text))

REQUIRED_HEADERS == <<"name", "pos", "adp">>

\* the Player built from a row (lines 103-114)
RowPlayer(r) ==
  Player(r["name"], ToUpperCase(r["pos"]), Field(r, "team"),
         Whole(parseMaybeNum(Field(r, "age"))), parseBool(Field(r, "rookie")),
         NumberOf(r["adp"]).val \div 100,
         parseMaybeNum(Field(r, "injuryrisk")),
         parseMaybeNum(Field(r, "upside")),
         Whole(parseMaybeNum(Field(r, "offense"))),
         Whole(parseMaybeNum(Field(r, "bye"))))

HasName(r) == Len(Trim(r["name"])) > 0
AdpInvalid(r) == ~NumberOf(r["adp"]).finite
PosInvalid(r) == ToUpperCase(r["pos"]) \notin PosKeys
\* row validation that forgets the position check
RowInvalidAdpOnly(r) == ~NumberOf(r["adp"]).finite

RowInvalid(r) == AdpInvalid(r) \/ PosInvalid(r)

\* the message of the Error thrown for a row
RowError(r) ==
  IF AdpInvalid(r) THEN "Invalid ADP for " \o r["name"]
  ELSE "Invalid position for " \o r["name"] \o ": " \o r["pos"]

\* the smallest element of a set of numbers
First(S) == CHOOSE i \in S : \A j \in S : i <= j

\* the required headers that the header row lacks, by position
MissingRequired(headSet) == {i \in 1..3 : REQUIRED_HEADERS[i] \notin headSet}

\* rows.filter(r => (r.name??"").trim().length>0)
NamedRows(rows) == Filter(rows, [k \in 1..Len(rows) |-> HasName(rows[k])])

\* the map over the named rows: it throws at the first invalid row
PlayersOfNamed(named) ==
  IF \E i \in 1..Len(named) : RowInvalid(named[i])
  THEN [error |-> RowError(named[First({i \in 1..Len(named) :
                                          RowInvalid(named[i])})]),
        players |-> <<>>]
  ELSE [error |-> Null,
        players |-> [i \in 1..Len(named) |-> RowPlayer(named[i])]]

PlayersOfRows(rows) ==
  IF rows = <<>> THEN [error |-> Null, players |-> <<>>]
  ELSE IF MissingRequired(DOMAIN rows[1]) # {}
  THEN [error |-> "CSV missing required column: " \o
                  REQUIRED_HEADERS[First(MissingRequired(DOMAIN rows[1]))],
        players |-> <<>>]
  ELSE PlayersOfNamed(NamedRows(rows))

\* parsePlayersCSV: the players, or the message of the Error it throws
parsePlayersCSV(text) == PlayersOfRows(simpleCSVParse(text))

\* lines 259-260 on what parsePlayersCSV returned
CheckedAndSorted(parsed) ==
  IF parsed.error # Null THEN parsed
  ELSE IF parsed.players = <<>>
  THEN [error |-> "No rows found.", players |-> <<>>]
  ELSE [error |-> Null,
        players |-> ArraySort(parsed.players, AdpKeys(parsed.players))]

\* the outcome of the try block of handleCSVFile (lines 257-265)
ImportOutcome(text) == CheckedAndSorted(parsePlayersCSV(text))

(***************************************************************************)
(* The files offered to "Upload CSV".                                      *)
(***************************************************************************)
FileGood ==
  " Name ,POS,ADP,rookie,upside,injuryRisk,offense\r\nA,QB,2,TRUE,0.9,0.2,1\r\n\r\n B ,rb,1,no,,abc,5\r\nC,WR,3\r\n"
FileDupNames == "name,pos,adp\nA,RB,5\nA,QB,1\nB,te,1"
FileMissingAdp == "name,pos\nA,QB\n"
FileBadAdpLast == "name,pos,adp\nA,QB,1\nB,RB,abc\n"
FileBadPosFirst == "name,pos,adp\nA,XX,1\nB,RB,2\n"
FileNoRows == "name,pos,adp\n"
FileNamelessBad == "name,pos,adp\n  ,XX,abc\nC,wr,\n"
FileOnlyNameless == "name,pos,adp\n,QB,1\n"

Files == {FileGood, FileDupNames, FileMissingAdp, FileBadAdpLast,
          FileBadPosFirst, FileNoRows, FileNamelessBad, FileOnlyNameless}

\* what reading each file ends in, computed once
Outcomes == [file \in Files |-> ImportOutcome(file)]

(***************************************************************************)
(* Snake-order arithmetic.                                                 *)
(***************************************************************************)
\* rounding that is off at the last pick of a round
CeilFloorPlusOne(n, t) == n \div t + 1

\* Math.ceil(n / t) for whole n >= 0 and t >= 1
Ceil(n, t) == (n + t - 1) \div t

\* lines 231-233 of myUpcoming
UpcomingRound(idx, t) == Ceil(idx, t)
\* a slot that is not reversed in even rounds
UpcomingSnakeLinear(idx, t) == idx - (UpcomingRound(idx, t) - 1) * t

UpcomingSnake(idx, t) ==
  LET round == UpcomingRound(idx, t)
      posInRoundRaw == idx - (round - 1) * t
  IN IF round % 2 = 1 THEN posInRoundRaw ELSE t - posInRoundRaw + 1

\* lines 405-407 of the Live Picks list
DisplayRound(overall, t) == Ceil(overall, t)
DisplayPosInRound(overall, t) == overall - (DisplayRound(overall, t) - 1) * t
DisplaySnake(overall, t) ==
  LET round == DisplayRound(overall, t)
      posInRoundRaw == DisplayPosInRound(overall, t)
  IN IF round % 2 = 1 THEN posInRoundRaw ELSE t - posInRoundRaw + 1

RECURSIVE UpcomingScan(_, _, _, _, _)
\* the while loop of myUpcoming; the scan is cut off after fuel iterations
UpcomingScan(res, idx, t, slot, fuel) ==
  IF ~(Len(res) < 3) \/ fuel = 0 THEN res
  ELSE UpcomingScan(IF UpcomingSnake(idx, t) = slot THEN Append(res, idx)
                    ELSE res,
                    idx + 1, t, slot, fuel - 1)

\* a scan that starts at the pick just made
FirstScannedAtCurrent(currentOverall) == currentOverall

\* let idx = currentOverall + 1
FirstScanned(currentOverall) == currentOverall + 1

myUpcomingOf(t, slot, currentOverall) ==
  UpcomingScan(<<>>, FirstScanned(currentOverall), t, slot, ScanLimit)

\* useMemo(..., [mySlot, teams, currentOverall]): the scan is run once for a
\* league setting and a log length
UpcomingMemo ==
  [t \in 2..16 |->
     [slot \in 1..16 |->
        [c \in 0..Max(MaxPicks, MaxOverall) |-> myUpcomingOf(t, slot, c)]]]

currentOverall == Len(picks)
myUpcoming == UpcomingMemo[teams][mySlot][currentOverall]

\* the render of a league setting and a log length returns: its scan of
\* myUpcoming finds three picks
RespondsAt(t, slot, c) == Len(UpcomingMemo[t][slot][c]) = 3

\* the render that follows a state change returns.  When it does not, the
\* page no longer reacts.
Responsive == RespondsAt(teams, mySlot, currentOverall)

takenNames == NamesOf(picks)

(***************************************************************************)
(* Scoring and ranking.  A score is kept as the whole number               *)
(* score * 1200000 * (qbW + rbW + wrW + teW), which is exact when the five *)
(* scalar knobs are multiples of ten; all scores of one ranking pass share *)
(* that factor.  When the four position knobs sum to 0 the position        *)
(* weights are 0/0 and every score is NaN.                                 *)
(***************************************************************************)
maxADP == 240
POS_INDEX == [QB |-> 1, RB |-> 2, WR |-> 3, TE |-> 4]

\* the raw position knobs in POS_INDEX order, and their sum (lines 177-178)
PosKnobs(w) == <<w.qbW, w.rbW, w.wrW, w.teW>>
KnobTotal(w) == w.qbW + w.rbW + w.wrW + w.teW

\* p.f ?? d for an optional numeric field
OrElse(v, d) == IF v = Undef THEN d ELSE v

\* 240 * adpNorm, with adpNorm = 1 - clamp01(p.adp / maxADP)
AdpNorm240(p) == maxADP - Max(0, Min(maxADP, p.adp))

\* 120000 * total * custom (line 65)
CustomNum(p, w) ==
  LET total == KnobTotal(w)
      posKnob == PosKnobs(w)[POS_INDEX[p.pos]]
      rookie == IF p.rookie THEN w.rookieBoost \div 10 ELSE 0
      risk == (w.riskAverse \div 10) * OrElse(p.injuryRisk, 15)
      upside == (w.upsideWeight \div 10) * OrElse(p.upside, 50)
      offense == OrElse(p.offense, 3)
      offenseBonus == (w.offenseWeight \div 10) * (5 - offense)
  IN 42000 * posKnob + 125 * AdpNorm240(p) * total + 18 * upside * total
     + 450 * offenseBonus * total + 1200 * rookie * total - 12 * risk * total

\* a score that ignores the anchor
scorePlayerCustomOnly(p, w) == [nan |-> FALSE, num |-> 10 * CustomNum(p, w)]

scorePlayer(p, w) ==
  LET anchor == w.adpAnchor \div 10
  IN IF KnobTotal(w) = 0 THEN [nan |-> TRUE, num |-> 0]
     ELSE [nan |-> FALSE,
           num |-> anchor * AdpNorm240(p) * 500 * KnobTotal(w)
                   + (10 - anchor) * CustomNum(p, w)]

\* {...p, f: v}
With(p, f, v) == [x \in (DOMAIN p) \cup {f} |-> IF x = f THEN v ELSE p[x]]

\* .map((p,i)=>({...p, baseRank: i+1}))
WithBaseRank(sorted) ==
  [i \in 1..Len(sorted) |-> With(sorted[i], "baseRank", i)]

baseRankingsOf(ps) == WithBaseRank(ArraySort(ps, AdpKeys(ps)))

baseRankings == baseRankingsOf(players)

\* line 190
OfRole(list, only) ==
  Filter(list, [i \in 1..Len(list) |->
                  IF only = "ALL" THEN TRUE ELSE list[i].pos = only])

\* line 191
Matching(list, term) ==
  Filter(list, [i \in 1..Len(list) |->
                  IF term # ""
                  THEN Includes(ToLowerCase(list[i].name), ToLowerCase(term))
                  ELSE TRUE])

\* line 192
Scored(list, w) ==
  [i \in 1..Len(list) |-> With(list[i], "score", scorePlayer(list[i], w))]

\* the keys of the comparator (a,b) => b.score - a.score; a NaN difference
\* counts as 0
ScoreKeys(s) ==
  [i \in 1..Len(s) |-> IF s[i].score.nan THEN 0 ELSE 0 - s[i].score.num]

\* an ascending sort that is then reversed: equal scores end up reversed
ByScoreThenReversed(pool) ==
  LET up == ArraySort(pool, [i \in 1..Len(pool) |-> 0 - ScoreKeys(pool)[i]])
  IN [i \in 1..Len(up) |-> up[Len(up) + 1 - i]]

\* line 193
ByScore(pool) == ArraySort(pool, ScoreKeys(pool))

\* a delta with its sign flipped
WithRankFlipped(p, i) == With(With(p, "rankNow", i), "delta", i - p.baseRank)

\* {...p, rankNow: i+1, delta: (p.baseRank ?? i+1) - (i+1)}
WithRank(p, i) == With(With(p, "rankNow", i), "delta", p.baseRank - i)

\* line 194
Numbered(pool) == [i \in 1..Len(pool) |-> WithRank(pool[i], i)]

\* a ranking pass that numbers the baseline after the filters
withRanksOfRebased(ps, w, only, term) ==
  Numbered(ByScore(Scored(WithBaseRank(Matching(OfRole(baseRankingsOf(ps),
                                                       only), term)), w)))

\* the ranking pass up to line 194: every filter-matching entity with its
\* score, current rank and delta
withRanksOf(ps, w, only, term) ==
  Numbered(ByScore(Scored(Matching(OfRole(baseRankingsOf(ps), only), term),
                          w)))

\* a board that never hides a taken entity
VisibleOfUnfiltered(withRanks, showTaken, taken) == withRanks

\* line 195
VisibleOf(withRanks, showTaken, taken) ==
  IF showTaken THEN withRanks
  ELSE Filter(withRanks,
              [i \in 1..Len(withRanks) |-> withRanks[i].name \notin taken])

rankedOf(ps, w, only, term, showTaken, taken) ==
  VisibleOf(withRanksOf(ps, w, only, term), showTaken, taken)

ranked ==
  rankedOf(players, weights, showOnly, search, showTakenInList, takenNames)

(***************************************************************************)
(* CSV export.                                                             *)
(***************************************************************************)
\* String(n) for a number kept in hundredths: 95 is "0.95", 100 is "1"
HundredthsText(h) ==
  LET a == IF h < 0 THEN 0 - h ELSE h
      f == a % 100
  IN (IF h < 0 THEN "-" ELSE "") \o ToString(a \div 100) \o
     (IF f = 0 THEN ""
      ELSE IF f % 10 = 0 THEN "." \o ToString(f \div 10)
      ELSE IF f < 10 THEN ".0" \o ToString(f)
      ELSE "." \o ToString(f))

\* String(n) for a whole number
WholeText(n) == HundredthsText(100 * n)

RECURSIVE JoinFirst(_, _, _)
\* the first n strings of a list, joined by sep
JoinFirst(cells, sep, n) ==
  IF n = 0 THEN ""
  ELSE IF n = 1 THEN cells[1]
  ELSE JoinFirst(cells, sep, n - 1) \o sep \o cells[n]

\* Array.prototype.join
Join(cells, sep) == JoinFirst(cells, sep, Len(cells))

ExportHeaders ==
  <<"name", "pos", "adp", "rookie", "upside", "injuryRisk", "offense", "bye",
    "rankNow">>

\* the cells of one row of the export (line 245)
ExportRow(p) ==
  <<p.name, p.pos, WholeText(p.adp), IF p.rookie THEN "1" ELSE "0",
    IF p.upside = Undef THEN "" ELSE HundredthsText(p.upside),
    IF p.injuryRisk = Undef THEN "" ELSE HundredthsText(p.injuryRisk),
    IF p.offense = Undef THEN "" ELSE WholeText(p.offense),
    IF p.bye = Undef THEN "" ELSE WholeText(p.bye),
    WholeText(p.rankNow)>>

\* the separator the export puts between its rows: the string literal of
\* line 246 is a backslash followed by the letter n
RowJoiner == "\\n"

\* the text of the file that downloadCSV offers for a board (lines 244-246)
downloadCSVOf(board) ==
  Join(<<Join(ExportHeaders, ",")>> \o
       [i \in 1..Len(board) |-> Join(ExportRow(board[i]), ",")],
       RowJoiner)

downloadCSV == downloadCSVOf(ranked)

(***************************************************************************)
(* The session snapshot.  The item under LS_KEY is kept as the object that  *)
(* was handed to saveState; reading it back goes through its JSON text:    *)
(* JSON.stringify leaves out the properties whose value is undefined, and  *)
(* reading a property that is not there gives undefined.                   *)
(***************************************************************************)
\* localStorage.getItem(LS_KEY) === null
NoSnapshot == [absent |-> TRUE]

KnobKeys ==
  {"qbW", "rbW", "wrW", "teW", "rookieBoost", "riskAverse", "upsideWeight",
   "adpAnchor", "offenseWeight"}

\* the value of property f of a Player when it is undefined
UndefinedOf(f) ==
  IF f = "team" THEN NoTeam ELSE IF f = "rookie" THEN FALSE ELSE Undef

IsDefined(p, f) ==
  IF f = "team" THEN p[f] # NoTeam
  ELSE IF f \in {"age", "injuryRisk", "upside", "offense", "bye"}
  THEN p[f] # Undef
  ELSE TRUE

\* JSON.parse of the JSON.stringify of a Player
PlayerJSON(p) == [f \in {g \in DOMAIN p : IsDefined(p, g)} |-> p[f]]

\* the Player that the property reads of the program see in a parsed object
PlayerRead(o) ==
  [f \in {"name", "pos", "team", "age", "rookie", "adp", "injuryRisk",
          "upside", "offense", "bye"} |->
     IF f \in DOMAIN o THEN o[f] ELSE UndefinedOf(f)]

\* the object handed to saveState (line 173)
saveStateOf(t, slot, r, w, showTaken, log, roster, ps) ==
  [teams |-> t, mySlot |-> slot, rounds |-> r,
   qbW |-> w.qbW, rbW |-> w.rbW, wrW |-> w.wrW, teW |-> w.teW,
   rookieBoost |-> w.rookieBoost, riskAverse |-> w.riskAverse,
   upsideWeight |-> w.upsideWeight, adpAnchor |-> w.adpAnchor,
   offenseWeight |-> w.offenseWeight,
   showTakenInList |-> showTaken, picks |-> log, myRoster |-> roster,
   players |-> ps]

\* what the save effect of the current render writes
Snapshot ==
  saveStateOf(teams, mySlot, rounds, weights, showTakenInList, picks,
              myRoster, players)

\* s.k ?? d
Stored(s, k, d) == IF k \in DOMAIN s THEN s[k] ELSE d

\* the values the load effect sets from a snapshot (lines 160-168)
LoadedWeights(s) == [k \in KnobKeys |-> Stored(s, k, DefaultWeights[k])]
LoadedPlayers(s, current) ==
  IF "players" \in DOMAIN s /\ s.players # <<>>
  THEN [i \in 1..Len(s.players) |-> PlayerRead(PlayerJSON(s.players[i]))]
  ELSE current

\* the save effect (lines 172-174) of the render that follows a handler; it
\* does not run when that render does not return
SaveEffect ==
  /\ phase' = phase
  /\ stored' =
       IF RespondsAt(teams', mySlot', Len(picks'))
       THEN saveStateOf(teams', mySlot', rounds', weights', showTakenInList',
                        picks', myRoster', players')
       ELSE stored

\* the page reacts to the user: the session has started and the last render
\* returned
Interactive == phase = "running" /\ Responsive

(***************************************************************************)
(* Handlers.  No handler runs once the page has stopped reacting.          *)
(***************************************************************************)
leagueVars == <<teams, mySlot, rounds>>
listVars == <<weights, showOnly, search, showTakenInList>>
draftVars == <<picks, myRoster>>

Init ==
  /\ teams = 12 /\ mySlot = 1 /\ rounds = 15
  /\ weights = DefaultWeights
  /\ showOnly = "ALL" /\ search = "" /\ showTakenInList = FALSE
  /\ dataError = Null
  /\ players = DEFAULT_PLAYERS
  /\ picks = <<>> /\ myRoster = <<>>
  /\ pending = {}
  /\ stored = Snapshot
  /\ phase = "running"

\* addPick without its taken check
AlreadyTakenUnchecked(log, name) == FALSE

\* the taken check of addPick (line 209), on a pick log
AlreadyTaken(log, name) == name \in NamesOf(log)

\* a lookup that falls back to the first entity of the roster
FindPlayerOrFirst(name) ==
  LET found == {i \in 1..Len(players) : players[i].name = name}
  IN IF found = {} THEN 1 ELSE CHOOSE i \in found : \A j \in found : i <= j

\* players.find(pp => pp.name === name): the index of the first match, 0
\* when there is none
FindPlayer(name) ==
  LET found == {i \in 1..Len(players) : players[i].name = name}
  IN IF found = {} THEN 0 ELSE CHOOSE i \in found : \A j \in found : i <= j

\* a pick number that counts from 0
NextOverallZeroBased(log) == Len(log)

\* const overall = currentOverall + 1, on a pick log
NextOverall(log) == Len(log) + 1

\* an addPick that puts every pick on the "my roster" list
AddPickResultAllMine(log, roster, name, myPick) ==
  LET k == FindPlayer(name)
  IN IF k = 0 \/ AlreadyTaken(log, name) THEN <<log, roster>>
     ELSE <<Append(log, [overall |-> NextOverall(log), name |-> name,
                         pos |-> players[k].pos, myPick |-> myPick]),
            Append(roster, name)>>

\* the pick log and the "my roster" list that addPick leaves
AddPickResult(log, roster, name, myPick) ==
  LET k == FindPlayer(name)
  IN IF k = 0 \/ AlreadyTaken(log, name) THEN <<log, roster>>
     ELSE LET p == players[k]
              item == [overall |-> NextOverall(log), name |-> p.name,
                       pos |-> p.pos, myPick |-> myPick]
          IN <<Append(log, item),
               IF myPick THEN Append(roster, name) ELSE roster>>

AddPick(name, myPick) ==
  /\ Interactive
  /\ UNCHANGED <<leagueVars, listVars, dataError, players, pending>>
  /\ LET after == AddPickResult(picks, myRoster, name, myPick)
     IN picks' = after[1] /\ myRoster' = after[2]
  /\ SaveEffect

\* an undo that leaves the "my roster" list alone
WithoutNameKept(r, name) == r

\* r.filter(n => n !== last.name)
WithoutName(r, name) == Filter(r, [i \in 1..Len(r) |-> r[i] # name])

\* an undo that removes the oldest event
UndoPickDropsFirst(log, roster) ==
  IF log = <<>> THEN <<log, roster>> ELSE <<Tail(log), roster>>

\* the pick log and the "my roster" list that undoPick leaves
UndoPickResult(log, roster) ==
  IF log = <<>> THEN <<log, roster>>
  ELSE LET last == log[Len(log)]
       IN <<SubSeq(log, 1, Len(log) - 1),
            IF last.myPick THEN WithoutName(roster, last.name) ELSE roster>>

UndoPick ==
  /\ Interactive
  /\ LET after == UndoPickResult(picks, myRoster)
     IN picks' = after[1] /\ myRoster' = after[2]
  /\ UNCHANGED <<leagueVars, listVars, dataError, players, pending>>
  /\ SaveEffect

\* a reset that forgets the "my roster" list
ResetDraftKeepsRoster ==
  /\ Interactive
  /\ picks' = <<>>
  /\ UNCHANGED <<leagueVars, listVars, dataError, players, pending, myRoster>>
  /\ SaveEffect

ResetDraft ==
  /\ Interactive
  /\ picks' = <<>> /\ myRoster' = <<>>
  /\ UNCHANGED <<leagueVars, listVars, dataError, players, pending>>
  /\ SaveEffect

\* sample data loaded under the draft in progress
UseSampleDataKeepsDraft ==
  /\ Interactive
  /\ players' = DEFAULT_PLAYERS
  /\ UNCHANGED <<leagueVars, listVars, dataError, pending, draftVars>>
  /\ SaveEffect

UseSampleData ==
  /\ Interactive
  /\ players' = DEFAULT_PLAYERS
  /\ picks' = <<>> /\ myRoster' = <<>>
  /\ UNCHANGED <<leagueVars, listVars, dataError, pending>>
  /\ SaveEffect

\* handleCSVFile up to the await
ImportStart(file) ==
  /\ Interactive
  /\ Cardinality(pending \cup {file}) <= MaxPending
  /\ dataError' = Null
  /\ pending' = pending \cup {file}
  /\ UNCHANGED <<leagueVars, listVars, players, draftVars>>
  /\ SaveEffect

\* an import that clears the pick log but not the "my roster" list
ImportFinishKeepsRoster(file) ==
  /\ file \in pending
  /\ Interactive
  /\ pending' = pending \ {file}
  /\ LET out == Outcomes[file]
     IN IF out.error = Null
        THEN /\ players' = out.players
             /\ picks' = <<>>
             /\ UNCHANGED <<dataError, myRoster>>
        ELSE /\ dataError' = out.error
             /\ UNCHANGED <<players, draftVars>>
  /\ UNCHANGED <<leagueVars, listVars>>
  /\ SaveEffect

\* handleCSVFile after the await
ImportFinish(file) ==
  /\ file \in pending
  /\ Interactive
  /\ pending' = pending \ {file}
  /\ LET out == Outcomes[file]
     IN IF out.error = Null
        THEN /\ players' = out.players
             /\ picks' = <<>> /\ myRoster' = <<>>
             /\ UNCHANGED dataError
        ELSE /\ dataError' = out.error
             /\ UNCHANGED <<players, draftVars>>
  /\ UNCHANGED <<leagueVars, listVars>>
  /\ SaveEffect

\* the value the Teams input hands to setTeams
ClampTeams(v) == Max(2, Min(16, v))

SetTeams(v) ==
  /\ Interactive
  /\ teams' = ClampTeams(v)
  /\ UNCHANGED <<mySlot, rounds, listVars, dataError, players, draftVars,
                 pending>>
  /\ SaveEffect

SetMySlot(v) ==
  /\ Interactive
  /\ mySlot' = Max(1, Min(teams, v))
  /\ UNCHANGED <<teams, rounds, listVars, dataError, players, draftVars,
                 pending>>
  /\ SaveEffect

SetRounds(v) ==
  /\ Interactive
  /\ rounds' = Max(1, Min(25, v))
  /\ UNCHANGED <<teams, mySlot, listVars, dataError, players, draftVars,
                 pending>>
  /\ SaveEffect

ResetLeague ==
  /\ Interactive
  /\ teams' = 12 /\ mySlot' = 1 /\ rounds' = 15
  /\ UNCHANGED <<listVars, dataError, players, draftVars, pending>>
  /\ SaveEffect

ResetWeights ==
  /\ Interactive
  /\ weights' = DefaultWeights
  /\ UNCHANGED <<leagueVars, showOnly, search, showTakenInList, dataError,
                 players, draftVars, pending>>
  /\ SaveEffect

SetShowOnly(v) ==
  /\ Interactive
  /\ showOnly' = v
  /\ UNCHANGED <<leagueVars, weights, search, showTakenInList, dataError,
                 players, draftVars, pending>>
  /\ SaveEffect

SetSearch(v) ==
  /\ Interactive
  /\ search' = v
  /\ UNCHANGED <<leagueVars, weights, showOnly, showTakenInList, dataError,
                 players, draftVars, pending>>
  /\ SaveEffect

SetShowTakenInList(v) ==
  /\ Interactive
  /\ showTakenInList' = v
  /\ UNCHANGED <<leagueVars, weights, showOnly, search, dataError, players,
                 draftVars, pending>>
  /\ SaveEffect

(***************************************************************************)
(* Sessions.                                                               *)
(***************************************************************************)
\* the page is opened anew: every useState starts from its initial value and
\* the file reads of the old page are gone; localStorage is kept
Reload ==
  /\ teams' = 12 /\ mySlot' = 1 /\ rounds' = 15
  /\ weights' = DefaultWeights
  /\ showOnly' = "ALL" /\ search' = "" /\ showTakenInList' = FALSE
  /\ dataError' = Null
  /\ players' = DEFAULT_PLAYERS
  /\ picks' = <<>> /\ myRoster' = <<>>
  /\ pending' = {}
  /\ phase' = "mounted"
  /\ UNCHANGED stored

\* the load effect (lines 157-170) on a snapshot that is there
LoadEffect ==
  /\ teams' = Stored(stored, "teams", 12)
  /\ mySlot' = Stored(stored, "mySlot", 1)
  /\ rounds' = Stored(stored, "rounds", 15)
  /\ weights' = LoadedWeights(stored)
  /\ showTakenInList' = Stored(stored, "showTakenInList", FALSE)
  /\ picks' = Stored(stored, "picks", <<>>)
  /\ myRoster' = Stored(stored, "myRoster", <<>>)
  /\ players' = LoadedPlayers(stored, players)

\* the effects of the first render, in their order: the load effect queues
\* the stored values, then the save effect writes the values of the first
\* render
MountEffects ==
  /\ phase = "mounted"
  /\ IF stored = NoSnapshot
     THEN /\ UNCHANGED <<leagueVars, listVars, draftVars, players>>
          /\ phase' = "running"
     ELSE /\ LoadEffect
          /\ UNCHANGED <<showOnly, search>>
          /\ phase' = "loaded"
  /\ stored' = Snapshot
  /\ UNCHANGED <<dataError, pending>>

\* the render of the loaded values and its save effect
Rerender ==
  /\ phase = "loaded"
  /\ Responsive
  /\ stored' = Snapshot
  /\ phase' = "running"
  /\ UNCHANGED <<leagueVars, listVars, dataError, players, draftVars,
                 pending>>

(***************************************************************************)
(* The draft: the pick, import, league and reset handlers with inputs from *)
(* small sets.                                                             *)
(***************************************************************************)
NameInputs == {"A", "B", "Christian McCaffrey", "Zed"}
TeamsInputs == {1, 20}
SlotInputs == {0, 20}
RoundsInputs == {0, 30}

Next ==
  \/ \E name \in NameInputs, myPick \in BOOLEAN :
       Len(picks) < MaxPicks /\ AddPick(name, myPick)
  \/ UndoPick
  \/ ResetDraft
  \/ UseSampleData
  \/ \E file \in Files : ImportStart(file)
  \/ \E file \in Files : ImportFinish(file)
  \/ \E v \in TeamsInputs : SetTeams(v)
  \/ \E v \in SlotInputs : SetMySlot(v)
  \/ \E v \in RoundsInputs : SetRounds(v)
  \/ ResetLeague
  \/ ResetWeights

Spec == Init /\ [][Next]_vars

(***************************************************************************)
(* Snake order: a roster of MaxOverall entities drafted in roster order,   *)
(* under every league setting the inputs can produce.                      *)
(***************************************************************************)
LongRoster ==
  [i \in 1..MaxOverall |->
     Player(ToString(i), "RB", NoTeam, Undef, FALSE, i, Undef, Undef, Undef,
            Undef)]

SnakeInit ==
  /\ teams = 12 /\ mySlot = 1 /\ rounds = 15
  /\ weights = DefaultWeights
  /\ showOnly = "ALL" /\ search = "" /\ showTakenInList = FALSE
  /\ dataError = Null
  /\ players = LongRoster
  /\ picks = <<>> /\ myRoster = <<>>
  /\ pending = {}
  /\ stored = Snapshot
  /\ phase = "running"

SnakeNext ==
  \/ AddPick(ToString(Len(picks) + 1), FALSE)
  \/ UndoPick
  \/ \E v \in 1..17 : SetTeams(v)
  \/ \E v \in 0..17 : SetMySlot(v)
  \/ ResetLeague

SnakeSpec == SnakeInit /\ [][SnakeNext]_vars

(***************************************************************************)
(* Ranking: a roster and a weight configuration (as a stored session       *)
(* supplies them), then the filter and pick handlers.                      *)
(***************************************************************************)
Knobs(q, r, w, t, rb, ra, up, an, of) ==
  [qbW |-> q, rbW |-> r, wrW |-> w, teW |-> t, rookieBoost |-> rb,
   riskAverse |-> ra, upsideWeight |-> up, adpAnchor |-> an,
   offenseWeight |-> of]

\* a roster with adp values below 0, at 240 and above 240
FileWideAdp == "name,pos,adp\nA,QB,300\nB,RB,-5\nC,WR,250\nD,TE,240\nE,RB,0\nF,WR,-7"

RankRosters ==
  {DEFAULT_PLAYERS, Outcomes[FileGood].players,
   Outcomes[FileDupNames].players, ImportOutcome(FileWideAdp).players}
RankWeights ==
  {DefaultWeights,
   Knobs(100, 100, 100, 100, 20, 50, 50, 100, 50),
   Knobs(200, 0, 100, 50, 100, 100, 0, 100, 100),
   Knobs(0, 0, 0, 0, 20, 50, 50, 100, 50),
   Knobs(200, 0, 100, 50, 100, 100, 0, 0, 100),
   Knobs(0, 0, 0, 0, 20, 50, 50, 60, 50)}
RankNames == {"A", "B", "Justin Jefferson", "Rookie RB A"}
ShowOnlyInputs == {"ALL", "QB", "RB", "WR", "TE"}
SearchInputs == {"", "a", "RO"}

RankInit ==
  /\ teams = 12 /\ mySlot = 1 /\ rounds = 15
  /\ weights \in RankWeights
  /\ showOnly = "ALL" /\ search = "" /\ showTakenInList = FALSE
  /\ dataError = Null
  /\ players \in RankRosters
  /\ picks = <<>> /\ myRoster = <<>>
  /\ pending = {}
  /\ stored = Snapshot
  /\ phase = "running"

RankNext ==
  \/ \E name \in RankNames, myPick \in BOOLEAN :
       Len(picks) < MaxPicks /\ AddPick(name, myPick)
  \/ UndoPick
  \/ ResetDraft
  \/ ResetWeights
  \/ \E v \in ShowOnlyInputs : SetShowOnly(v)
  \/ \E v \in SearchInputs : SetSearch(v)
  \/ \E v \in BOOLEAN : SetShowTakenInList(v)

RankSpec == RankInit /\ [][RankNext]_vars

(***************************************************************************)
(* Sessions: a first session that finds no snapshot, or one that lacks     *)
(* fields; the page is used and opened anew.                               *)
(***************************************************************************)
OlderSnapshot ==
  [teams |-> 10, mySlot |-> 4, adpAnchor |-> 100, showTakenInList |-> TRUE]

SessionInit ==
  /\ teams = 12 /\ mySlot = 1 /\ rounds = 15
  /\ weights = DefaultWeights
  /\ showOnly = "ALL" /\ search = "" /\ showTakenInList = FALSE
  /\ dataError = Null
  /\ players = DEFAULT_PLAYERS
  /\ picks = <<>> /\ myRoster = <<>>
  /\ pending = {}
  /\ stored \in {NoSnapshot, OlderSnapshot}
  /\ phase = "mounted"

SessionNames == {"A", "Christian McCaffrey"}
SessionFiles == {FileGood, FileBadAdpLast}

SessionNext ==
  \/ Reload
  \/ MountEffects
  \/ Rerender
  \/ \E name \in SessionNames, myPick \in BOOLEAN :
       Len(picks) < MaxPicks /\ AddPick(name, myPick)
  \/ UndoPick
  \/ UseSampleData
  \/ \E file \in SessionFiles : ImportStart(file)
  \/ \E file \in SessionFiles : ImportFinish(file)
  \/ \E v \in TeamsInputs : SetTeams(v)
  \/ \E v \in SlotInputs : SetMySlot(v)
  \/ ResetLeague
  \/ ResetWeights
  \/ \E v \in BOOLEAN : SetShowTakenInList(v)

SessionSpec == SessionInit /\ [][SessionNext]_vars

(***************************************************************************)
(* Properties.                                                             *)
(***************************************************************************)
Count(s, x) == Cardinality({i \in 1..Len(s) : s[i] = x})
\* s and t hold the same elements, each as often
SameBag(s, t) ==
  /\ Len(s) = Len(t)
  /\ \A i \in 1..Len(s) : Count(s, s[i]) = Count(t, s[i])

\* C1: no entity name appears more than once in the pick log, in any state
\* reached by picks, undos, resets, "use sample data" and CSV imports.
C1_UniqueNames ==
  \A i, j \in 1..Len(picks) : picks[i].name = picks[j].name => i = j

\* a log of two picks under an imported roster that lists the taken name "A"
\* twice, with room for the addPick("A") that must be refused
C1_Witness ==
  /\ Cardinality({i \in 1..Len(players) : players[i].name = "A"}) = 2
  /\ Len(picks) = 2
  /\ "A" \in takenNames

\* C2: addPick with a name that is not in the roster, or that is already in
\* the pick log, changes neither the pick log nor the "my roster" list and
\* surfaces no error.
C2_SilentNoOp ==
  [][\A name \in NameInputs, myPick \in BOOLEAN :
       (/\ name \notin NamesOf(players) \/ name \in takenNames
        /\ AddPick(name, myPick))
       => UNCHANGED <<picks, myRoster, dataError>>]_vars

\* "Zed" is unknown and "B" is taken, while the log still has room
C2_Witness ==
  /\ "Zed" \notin NamesOf(players)
  /\ "B" \in takenNames
  /\ myRoster # <<>>
  /\ Len(picks) < MaxPicks

\* C3: the overall pick number of the i-th event of the pick log is i.
C3_OverallIsPosition ==
  \A i \in 1..Len(picks) : picks[i].overall = i

C3_Witness ==
  /\ Len(picks) = 2
  /\ picks[1].overall = 1 /\ picks[2].overall = 2

\* C4: for every known entity X that is not taken and either value of isMine,
\* addPick(X, isMine) followed by undoPick() gives back the pick log and the
\* "my roster" list of before.
C4_UndoInvertsAdd ==
  \A name \in NamesOf(players) \ takenNames, myPick \in BOOLEAN :
    LET added == AddPickResult(picks, myRoster, name, myPick)
    IN /\ added[1] # picks
       /\ UndoPickResult(added[1], added[2]) = <<picks, myRoster>>

\* a log that already holds a pick of mine, with an entity left to pick
C4_Witness ==
  /\ picks # <<>> /\ myRoster # <<>>
  /\ NamesOf(players) \ takenNames # {}

\* the reasons for which an import fails: no data row, a required column
\* missing, or a named row whose adp is not finite or whose pos is unknown
RowsFail(rows) ==
  \/ rows = <<>>
  \/ {"name", "pos", "adp"} \ DOMAIN rows[1] # {}
  \/ \A k \in 1..Len(rows) : Len(Trim(rows[k]["name"])) = 0
  \/ \E k \in 1..Len(rows) :
       /\ Len(Trim(rows[k]["name"])) > 0
       /\ \/ ~NumberOf(rows[k]["adp"]).finite
          \/ ToUpperCase(rows[k]["pos"]) \notin {"QB", "RB", "WR", "TE"}
FailsImport(text) == RowsFail(simpleCSVParse(text))

FailingFiles == {file \in Files : FailsImport(file)}

\* C5: a CSV import that fails surfaces an error message and leaves the
\* roster, the pick log and the "my roster" list as they were.
C5_FailedImportKeepsState ==
  [][\A file \in Files :
       (ImportFinish(file) /\ file \in FailingFiles)
       => /\ UNCHANGED <<players, picks, myRoster>>
          /\ dataError' # Null]_vars

\* an error is shown while an imported roster and its picks are still there
C5_Witness ==
  /\ dataError = "Invalid position for A: XX"
  /\ players = Outcomes[FileGood].players
  /\ Len(picks) = 2 /\ myRoster # <<>>

\* the entities a file lists: one for each row that has a name
EntitiesOfRows(rows) == [k \in 1..Len(rows) |-> RowPlayer(rows[k])]
EntitiesOf ==
  [file \in Files |-> EntitiesOfRows(NamedRows(simpleCSVParse(file)))]

\* base numbers the entities of roster 1.. in ascending adp order
AscendingBase(base, roster) ==
  /\ Len(base) = Len(roster)
  /\ NamesOf(base) = NamesOf(roster)
  /\ \A i \in 1..Len(base) : base[i].baseRank = i
  /\ \A i, j \in 1..Len(base) : i < j => base[i].adp <= base[j].adp

\* C6: a CSV import that succeeds replaces the roster by the entities of the
\* file and leaves the pick log and the "my roster" list empty; the baseline
\* ranks are then the positions in ascending adp order over the new roster.
C6_ImportReplaces ==
  [][\A file \in Files :
       (ImportFinish(file) /\ file \notin FailingFiles)
       => /\ SameBag(players', EntitiesOf[file])
          /\ picks' = <<>> /\ myRoster' = <<>>
          /\ AscendingBase(baseRankingsOf(players'), players')]_vars

\* a file that will import is being read while the log holds picks of another
\* imported roster
C6_Witness ==
  /\ pending = {FileGood}
  /\ players = Outcomes[FileDupNames].players
  /\ Len(picks) = 2 /\ myRoster # <<>>

\* C7: the league configuration satisfies 2 <= teams <= 16 and
\* 1 <= mySlot <= teams in every state reached by league-setting changes.
C7_LeagueInRange ==
  /\ 2 <= teams /\ teams <= 16
  /\ 1 <= mySlot /\ mySlot <= teams

\* round and slot of pick n in a league of t teams, as the specification
\* words them
RoundOf(n, t) == CHOOSE r \in 1..n : (r - 1) * t < n /\ n <= r * t
SlotOf(n, t) ==
  LET posInRound == n - (RoundOf(n, t) - 1) * t
  IN IF RoundOf(n, t) % 2 = 1 THEN posInRound ELSE t - posInRound + 1

\* up holds the three smallest pick numbers above c whose slot is slot
NextThree(up, t, slot, c) ==
  /\ Len(up) = 3
  /\ c < up[1] /\ up[1] < up[2] /\ up[2] < up[3]
  /\ \A n \in (c + 1)..up[3] :
       SlotOf(n, t) = slot <=> n \in {up[1], up[2], up[3]}

\* C8: for a draft slot within 1..teams the upcoming picks are the three
\* smallest pick numbers above the length of the pick log whose snake slot is
\* the draft slot, in increasing order; for 12 teams, slot 1 and an empty log
\* they are 1, 24, 25.
C8_UpcomingAreNextThree ==
  (1 <= mySlot /\ mySlot <= teams) =>
    /\ NextThree(myUpcoming, teams, mySlot, Len(picks))
    /\ (teams = 12 /\ mySlot = 1 /\ Len(picks) = 0)
         => myUpcoming = <<1, 24, 25>>

\* after 24 picks in a 12-team league, slot 1 picks next at 25, 48 and 49
C8_Witness ==
  /\ teams = 12 /\ mySlot = 1 /\ Len(picks) = 24
  /\ myUpcoming = <<25, 48, 49>>

\* C9: for every pick number n and team count, round = ceil(n / teams), the
\* position in the round lies in 1..teams, the slot is the position in odd
\* rounds and teams - position + 1 in even rounds, and the pick-log display
\* and the upcoming-pick scan compute the same round and slot; with 12 teams
\* picks 1, 12, 13, 24 are at (round, slot) (1,1), (1,12), (2,12), (2,1).
C9_SnakeArithmetic ==
  /\ \A n \in 1..(Len(picks) + 3 * teams) :
       LET round == DisplayRound(n, teams)
           pos == DisplayPosInRound(n, teams)
       IN /\ (round - 1) * teams < n /\ n <= round * teams
          /\ 1 <= pos /\ pos <= teams
          /\ DisplaySnake(n, teams)
               = (IF round % 2 = 1 THEN pos ELSE teams - pos + 1)
          /\ UpcomingRound(n, teams) = round
          /\ UpcomingSnake(n, teams) = DisplaySnake(n, teams)
  /\ teams = 12 =>
       /\ <<DisplayRound(1, teams), DisplaySnake(1, teams)>> = <<1, 1>>
       /\ <<DisplayRound(12, teams), DisplaySnake(12, teams)>> = <<1, 12>>
       /\ <<DisplayRound(13, teams), DisplaySnake(13, teams)>> = <<2, 12>>
       /\ <<DisplayRound(24, teams), DisplaySnake(24, teams)>> = <<2, 1>>

\* the pick log of a 12-team league shows picks 13 and 24
C9_Witness ==
  /\ teams = 12 /\ Len(picks) >= 24
  /\ DisplaySnake(picks[13].overall, teams) = 12
  /\ DisplayRound(picks[24].overall, teams) = 2
  /\ DisplaySnake(picks[24].overall, teams) = 1

\* the entity of a ranked entry: the entry without the fields ranking adds
Entity(p) ==
  [f \in DOMAIN p \ {"baseRank", "score", "rankNow", "delta"} |-> p[f]]

\* r ranks the entities of roster 1..N, each once, with their deltas
RanksOnce(r, roster) ==
  /\ Len(r) = Len(roster)
  /\ {r[i].rankNow : i \in 1..Len(r)} = 1..Len(roster)
  /\ \A i, j \in 1..Len(r) : r[i].rankNow = r[j].rankNow => i = j
  /\ SameBag([i \in 1..Len(r) |-> Entity(r[i])], roster)
  /\ \A i \in 1..Len(r) : r[i].delta = r[i].baseRank - r[i].rankNow

\* C10: with role filter "all", an empty search term and taken entities
\* shown, the current ranks of the ranking output are exactly 1..N, each held
\* by one entity of the roster of N, and every delta is the baseline rank
\* minus the current rank.
C10_RanksArePermutation ==
  (showOnly = "ALL" /\ search = "" /\ showTakenInList)
    => RanksOnce(ranked, players)

\* the full board is shown with a pick made and some entity off its baseline
C10_Witness ==
  /\ showOnly = "ALL" /\ search = "" /\ showTakenInList
  /\ picks # <<>>
  /\ \E i \in 1..Len(ranked) : ranked[i].delta > 0

\* the role filter and the search term, on an entity
Shown(p) ==
  /\ showOnly = "ALL" \/ p.pos = showOnly
  /\ search = "" \/ Includes(ToLowerCase(p.name), ToLowerCase(search))

\* vis holds the entries of all whose name is not taken, and no other
TakenHidden(vis, all, taken) ==
  /\ \A i \in 1..Len(vis) :
       vis[i].name \notin taken /\ Count(all, vis[i]) = Count(vis, vis[i])
  /\ \A i \in 1..Len(all) :
       all[i].name \notin taken => Count(vis, all[i]) = Count(all, all[i])

\* all holds the entities of the roster that pass the filters, each once
AllShown(all, roster) ==
  SameBag([i \in 1..Len(all) |-> Entity(all[i])],
          Filter(roster, [i \in 1..Len(roster) |-> Shown(roster[i])]))

\* C11: with include-taken off, the ranking output holds exactly the
\* filter-matching entities whose name is not in the pick log, each with the
\* current rank and delta it has with include-taken on, whatever the pick log.
C11_TakenOnlyHidden ==
  ~showTakenInList =>
    /\ TakenHidden(ranked,
                   rankedOf(players, weights, showOnly, search, TRUE, {}),
                   takenNames)
    /\ AllShown(rankedOf(players, weights, showOnly, search, TRUE,
                         takenNames), players)

\* taken entities are hidden and the ranks that are left have a gap
C11_Witness ==
  /\ ~showTakenInList /\ Len(picks) = 2
  /\ ranked # <<>>
  /\ \E i \in 1..Len(ranked) : ranked[i].rankNow > i


\* the normalized adp orders two entities only when their clamped adp differ
Clamped(adp) == Max(0, Min(240, adp))

\* r is in ascending adp order, entities of equal normalized adp aside
AscendingAdp(r) ==
  \A i, j \in 1..Len(r) :
    (i < j /\ Clamped(r[i].adp) # Clamped(r[j].adp)) => r[i].adp < r[j].adp

\* every entry of r whose adp is in 0..240 and is held by no other entity of
\* the roster is at its baseline rank
LoneAdpAtBaseline(r, roster) ==
  \A i \in 1..Len(r) :
    (/\ 0 <= r[i].adp /\ r[i].adp <= 240
     /\ Cardinality({k \in 1..Len(roster) : roster[k].adp = r[i].adp}) = 1)
    => r[i].rankNow = r[i].baseRank

\* C12: with the anchor knob at 100 and any other weights, the ranking output
\* is in ascending adp order (entities of equal normalized adp aside); with no
\* filter every entity whose adp lies in 0..240 and differs from all others
\* has its current rank equal to its baseline rank.
C12_AnchorOneIsAdpOrder ==
  weights.adpAnchor = 100 =>
    /\ AscendingAdp(ranked)
    /\ (showOnly = "ALL" /\ search = "" /\ showTakenInList)
         => LoneAdpAtBaseline(ranked, players)

\* full anchor with uneven position knobs, on the full board of a roster that
\* has adp values outside 0..240
C12_Witness ==
  /\ weights.adpAnchor = 100 /\ weights.qbW = 200
  /\ showOnly = "ALL" /\ search = "" /\ showTakenInList
  /\ \E i \in 1..Len(players) : players[i].adp > 240
  /\ Len(ranked) = Len(players)


\* C13: resetDraft leaves the pick log and the "my roster" list empty and
\* leaves the roster, the weight knobs, the league configuration and the
\* filters as they were.
C13_ResetDraftFrame ==
  [][ResetDraft =>
       /\ picks' = <<>> /\ myRoster' = <<>>
       /\ UNCHANGED <<players, weights, teams, mySlot, rounds, showOnly,
                      search, showTakenInList>>]_vars

\* a draft in progress on an imported roster in a league that is not the
\* default one
C13_Witness ==
  /\ Len(picks) = 2 /\ myRoster # <<>>
  /\ players # DEFAULT_PLAYERS
  /\ teams = 16 /\ mySlot = 16 /\ rounds = 25

\* C14: undoPick on an empty pick log changes neither the pick log nor the
\* "my roster" list; on a non-empty log it removes the last event and leaves
\* every earlier event as it was.
C14_UndoRemovesLast ==
  [][UndoPick =>
       IF picks = <<>> THEN UNCHANGED <<picks, myRoster>>
       ELSE /\ Len(picks') = Len(picks) - 1
            /\ \A i \in 1..(Len(picks) - 1) : picks'[i] = picks[i]]_vars

\* a log of two events, the earlier one mine
C14_Witness ==
  /\ Len(picks) = 2
  /\ picks[1].myPick /\ ~picks[2].myPick

\* C15: every event of the pick log names an entity of the current roster, in
\* every state reached by picks, undos, resets, "use sample data" and imports.
C15_PicksNameRoster ==
  \A i \in 1..Len(picks) : picks[i].name \in NamesOf(players)

\* an entity of the sample roster is taken while a file that does not list it
\* is being read
C15_Witness ==
  /\ players = DEFAULT_PLAYERS
  /\ "Christian McCaffrey" \in takenNames
  /\ pending = {FileGood}


\* the fields of an entity that the round trip is to preserve
Exported(p) ==
  [name |-> p.name, pos |-> p.pos, adp |-> p.adp, rookie |-> p.rookie,
   upside |-> p.upside, injuryRisk |-> p.injuryRisk]

\* the import succeeded with the entities of the board
Reproduces(out, board) ==
  /\ out.error = Null
  /\ SameBag([i \in 1..Len(out.players) |-> Exported(out.players[i])],
             [i \in 1..Len(board) |-> Exported(board[i])])

\* C16: importing the text exported from the current ranked board succeeds
\* and gives the entities of the board, with their names, roles, adp, rookie
\* flag, upside and injuryRisk.
C16_ExportImportRoundTrip == Reproduces(ImportOutcome(downloadCSV), ranked)


\* every entry of r carries the baseline rank its entity has in base
BaselineKept(r, base) ==
  \A i \in 1..Len(r) :
    /\ r[i].baseRank \in 1..Len(base)
    /\ Entity(base[r[i].baseRank]) = Entity(r[i])

\* C17: the baseline ranks are the positions 1..N of the entities in the
\* ascending adp order of the whole roster, and an entity of the ranking
\* output carries that baseline rank under every role filter, search term,
\* include-taken setting, weight configuration and pick log.
C17_BaselineFixed ==
  /\ AscendingBase(baseRankings, players)
  /\ BaselineKept(ranked, baseRankings)

\* a role filter, a search term and a pick hide part of the roster, and the
\* first entity shown is not the first of the baseline
C17_Witness ==
  /\ showOnly = "RB" /\ search = "a" /\ ~showTakenInList /\ picks # <<>>
  /\ ranked # <<>> /\ ranked[1].baseRank > 2
  /\ weights # DefaultWeights


\* a < b for two scores; no order holds with NaN
ScoreBelow(a, b) == ~a.nan /\ ~b.nan /\ a.num < b.num

\* r is in non-increasing score order, equal scores in baseline order
SortedStable(r) ==
  \A i, j \in 1..Len(r) :
    i < j =>
      /\ ~ScoreBelow(r[i].score, r[j].score)
      /\ r[i].score = r[j].score => r[i].baseRank < r[j].baseRank

\* C18: the ranking output is in non-increasing score order, and two entities
\* with the same score are in ascending baseline-rank order.
C18_SortedStable == SortedStable(ranked)

\* the board holds two entities with the same score and two with different
\* scores
C18_Witness ==
  /\ picks # <<>>
  /\ \E i, j \in 1..Len(ranked) :
       /\ i < j /\ ~ranked[i].score.nan
       /\ ranked[i].score = ranked[j].score
       /\ ranked[i].pos # ranked[j].pos
  /\ \E i, j \in 1..Len(ranked) : ScoreBelow(ranked[j].score, ranked[i].score)


\* C19: the scan for the next three picks finishes with its three pick
\* numbers in every state reached by setTeams, setMySlot, Reset League,
\* addPick and undoPick.
C19_UpcomingTerminates ==
  Len(myUpcomingOf(teams, mySlot, currentOverall)) = 3


\* the values a new session would load from the snapshot
LoadsCurrent(s) ==
  /\ Stored(s, "teams", 12) = teams
  /\ Stored(s, "mySlot", 1) = mySlot
  /\ Stored(s, "rounds", 15) = rounds
  /\ LoadedWeights(s) = weights
  /\ Stored(s, "showTakenInList", FALSE) = showTakenInList
  /\ Stored(s, "picks", <<>>) = picks
  /\ Stored(s, "myRoster", <<>>) = myRoster
  /\ LoadedPlayers(s, DEFAULT_PLAYERS) = players

\* C20: once a session has started, the persisted snapshot is there, holds
\* the current league configuration, weight knobs, show-taken toggle, pick
\* log, "my roster" list and roster, and a new session that loads it gets
\* these values (the defaults for what it lacks); the save of the first
\* render does not leave the defaults in its place.
C20_SnapshotRoundTrip ==
  phase = "running" =>
    /\ stored # NoSnapshot
    /\ stored = Snapshot
    /\ LoadsCurrent(stored)


\* the names of the events of a pick log that are flagged as mine, in order
MineOf(log) ==
  LET mine == Filter(log, [i \in 1..Len(log) |-> log[i].myPick])
  IN [i \in 1..Len(mine) |-> mine[i].name]

\* C21: the "my roster" list is the sequence of the names of the pick-log
\* events flagged as mine, in pick-log order, in every state reached by
\* picks, undos, resets and imports; addPick with isMine false leaves the
\* "my roster" list as it was.
C21_RosterFollowsLog ==
  /\ [](myRoster = MineOf(picks))
  /\ [][\A name \in NameInputs :
          AddPick(name, FALSE) => UNCHANGED myRoster]_vars

\* on an imported roster the second pick is mine and the first is not
C21_Witness ==
  /\ players = Outcomes[FileGood].players
  /\ Len(picks) = 2
  /\ ~picks[1].myPick /\ picks[2].myPick
  /\ myRoster = <<picks[2].name>>

\* the picks of round r in a league of t teams
PicksOfRound(r, t) == ((r - 1) * t + 1)..(r * t)

\* the k-th pick of round r is at slot k in an odd round and at slot
\* t - k + 1 in an even round, for the pick-log display and for the scan
RoundCoversSlots(r, t) ==
  /\ \A k \in 1..t :
       LET n == (r - 1) * t + k
           slot == IF r % 2 = 1 THEN k ELSE t - k + 1
       IN /\ DisplayRound(n, t) = r /\ DisplaySnake(n, t) = slot
          /\ UpcomingRound(n, t) = r /\ UpcomingSnake(n, t) = slot
  /\ \A slot \in 1..t :
       Cardinality({n \in PicksOfRound(r, t) : UpcomingSnake(n, t) = slot}) = 1

\* C22: in every round the picks of the round map one-to-one onto the slots
\* 1..teams, ascending in odd rounds and descending in even rounds, and the
\* upcoming picks of a draft slot in 1..teams are in consecutive rounds.
C22_OnePickPerRound ==
  /\ \A r \in 1..(Len(picks) \div teams + 4) : RoundCoversSlots(r, teams)
  /\ mySlot <= teams =>
       \A i \in 1..2 :
         UpcomingRound(myUpcoming[i + 1], teams)
           = UpcomingRound(myUpcoming[i], teams) + 1

\* the last slot of a five-team league at the end of round 1: its next picks
\* are the first of round 2, the last of round 3 and the first of round 4
C22_Witness ==
  /\ teams = 5 /\ mySlot = 5 /\ Len(picks) = 5
  /\ myUpcoming = <<6, 15, 16>>


====
